---- MODULE Spec2Model ----
(***************************************************************************)
(* BBC scraper with an S3-synchronised SQLite store.                       *)
(*   db_manager.py   S3BBCDatabaseManager: download on open, the articles  *)
(*                   table, upload on close                                *)
(*   bbc_scraper.py  scrape_bbc_articles_to_db (the candidate loop), main  *)
(* The local database file and the remote object are modelled as values;   *)
(* a session is one S3BBCDatabaseManager from construction to              *)
(* close_connection, driven either by main() or by a direct caller of the  *)
(* manager's methods.                                                      *)
(***************************************************************************)
EXTENDS Integers, Sequences, FiniteSets, TLC

\* ------------------------------------------------------------------ bounds
MaxRuns == 2          \* sessions (manager constructions) in one behaviour
MaxLinks == 2         \* candidates one discovery pass returns
MaxDeletes == 1       \* rows delete_article removes in one behaviour
MaxRows == 3          \* rows of the table the queries are checked on
MaxTime == 2          \* values datetime.now() takes
MaxCards == 2         \* cards of any kind at the head of the homepage

\* --------------------------------------------------------------- constants
MainMaxArticles == 10 \* max_articles: the default, and what main() passes
LimitLe == 100        \* get_articles: limit: int = Query(10, ge=1, le=100)
TopStories == 10      \* get_bbc_article_links: return articles[:10]

URLs == {"u1", "u2"}
LiveURLs == {"u2"}    \* the urls whose link holds "/live/"

None == [none |-> TRUE]        \* Python's None
NoFile == [nofile |-> TRUE]    \* no file at local_db_path / no object under db_name

\* The title get_bbc_article_links reads from the headline of url u.
CardTitle(u) == IF u = "u1" THEN "t1" ELSE "t2"

\* The candidates a discovery pass may return, and the result lists.
Candidates == {[title |-> CardTitle(u), url |-> u, live |-> (u \in LiveURLs)] : u \in URLs}

RECURSIVE SeqsUpTo(_, _)
SeqsUpTo(S, n) ==
    IF n = 0 THEN {<<>>}
    ELSE LET shorter == SeqsUpTo(S, n - 1)
         IN  shorter \cup {Append(s, x) : s \in {t \in shorter : Len(t) = n - 1}, x \in S}

LinkLists == SeqsUpTo(Candidates, MaxLinks)

\* ------------------------------------------------- the articles table (file)
\* A database file: the rows of articles in insertion order, and the
\* AUTOINCREMENT high-water mark kept in the same file.
EmptyFile == [rows |-> <<>>, seq |-> 0]

Range(s) == {s[j] : j \in 1..Len(s)}

UrlsOf(file) == {r.url : r \in Range(file.rows)}

RowsWithUrl(file, u) == {j \in 1..Len(file.rows) : file.rows[j].url = u}

\* article_exists that finds no row.
article_exists_Never(file, u) == FALSE

\* SELECT COUNT(*) FROM articles WHERE url = ?  ...  count > 0
article_exists(file, u) == Cardinality(RowsWithUrl(file, u)) > 0

\* SELECT COUNT(*) FROM articles
get_total_count(file) == Len(file.rows)

\* A schema whose url column is not UNIQUE.
UniqueViolated_NoConstraint(file, u) == FALSE

\* The schema's constraint on url: url TEXT UNIQUE NOT NULL.
UniqueViolated(file, u) == \E r \in Range(file.rows) : r.url = u

\* INSERT INTO articles (...) VALUES (...); commit.  The result is the file
\* and whether sqlite3.IntegrityError was raised.
SqlInsert(file, d) ==
    IF UniqueViolated(file, d.url)
    THEN [file |-> file, raised |-> TRUE]
    ELSE [file |-> [rows |-> Append(file.rows,
                                    [id |-> file.seq + 1,
                                     title |-> d.title,
                                     url |-> d.url,
                                     body |-> d.body,
                                     is_live |-> d.live]),
                    seq |-> file.seq + 1],
          raised |-> FALSE]

RECURSIVE SelectSeq2(_, _)
SelectSeq2(s, u) ==
    IF s = <<>> THEN <<>>
    ELSE IF Head(s).url = u THEN SelectSeq2(Tail(s), u)
         ELSE <<Head(s)>> \o SelectSeq2(Tail(s), u)

\* DELETE FROM articles WHERE url = ?; commit; return cursor.rowcount > 0
delete_article(file, u) ==
    [file |-> [rows |-> SelectSeq2(file.rows, u), seq |-> file.seq],
     ret |-> Cardinality(RowsWithUrl(file, u)) > 0]

\* ------------------------------------------------------------ remote sync
\* What s3_client.download_file can do: "ok" (the object is copied over the
\* local path), "404" (ClientError, no such object; the local path is left
\* as it was), "client_error" (any other ClientError), "other_error" (an
\* exception that is no ClientError, such as a connection failure).
DownloadOutcomes(rem) ==
    IF rem = NoFile THEN {"404", "client_error", "other_error"}
    ELSE {"ok", "client_error", "other_error"}

\* download_from_s3 that removes the local file when the download fails.
download_from_s3_FreshOnFailure(loc, rem, outcome) ==
    IF outcome = "ok" THEN rem ELSE NoFile

\* download_from_s3: the file at local_db_path afterwards.
download_from_s3(loc, rem, outcome) ==
    IF outcome = "ok" THEN rem ELSE loc

\* download_from_s3 catches ClientError only.
DownloadRaises(outcome) == outcome \notin {"ok", "404", "client_error"}

\* setup_database: sqlite3.connect creates a missing file; CREATE TABLE IF
\* NOT EXISTS leaves an existing table as it is.
setup_database(loc) == IF loc = NoFile THEN EmptyFile ELSE loc

\* What s3_client.upload_file can do.
UploadOutcomes == {"ok", "client_error", "other_error"}

\* upload_to_s3 that never writes the object.
upload_to_s3_NeverWrites(loc, rem, outcome) == rem

\* upload_to_s3: the remote object afterwards.
upload_to_s3(loc, rem, outcome) ==
    IF outcome = "ok" THEN loc ELSE rem

\* upload_to_s3 catches ClientError only.
UploadRaises(outcome) == outcome \notin {"ok", "client_error"}

\* ------------------------------------------------------------- the fetcher
\* The text of the page's h1.
PageTitle(u) == IF u = "u1" THEN "h1" ELSE "h2"

\* What the fetch of a candidate's page can meet: "failed" (a status other
\* than 200, or an exception inside the fetcher), a standard page without or
\* with an <article> element, a live page without or with summary points.
StdPages == {"failed", "no_article", "article"}
LivePages == {"failed", "no_points", "points"}

\* get_article_content: None, or title (h1 text), body and url.
get_article_content(u, page) ==
    IF page = "article" THEN [title |-> PageTitle(u), body |-> "b", url |-> u]
    ELSE None

\* get_live_article_content that gives None for a page without summary points.
get_live_article_content_AbsentWithoutPoints(u, page) ==
    IF page = "points" THEN [body |-> "s. ", url |-> u] ELSE None

\* get_live_article_content: None, or body (the summary points joined, ""
\* without any) and url.
get_live_article_content(u, page) ==
    IF page = "failed" THEN None
    ELSE [body |-> IF page = "points" THEN "s. " ELSE "", url |-> u]

StdContents(u) == {get_article_content(u, page) : page \in StdPages}

LiveContents(u) == {get_live_article_content(u, page) : page \in LivePages}

\* The branch on article_info["live"], with the title and live keys set.
ArticleData(info, content) ==
    IF content = None THEN None
    ELSE IF info.live
         THEN [title |-> info.title, body |-> content.body, url |-> content.url, live |-> TRUE]
         ELSE [title |-> content.title, body |-> content.body, url |-> content.url, live |-> FALSE]

FetchResults(info) ==
    IF info.live THEN {ArticleData(info, c) : c \in LiveContents(info.url)}
    ELSE {ArticleData(info, c) : c \in StdContents(info.url)}

PagesOf(info) == IF info.live THEN LivePages ELSE StdPages

\* The article_data the loop body has for a candidate whose fetch met `page`.
Fetch(info, page) ==
    ArticleData(info, IF info.live THEN get_live_article_content(info.url, page)
                      ELSE get_article_content(info.url, page))

\* ------------------------------------------------------- the orchestrator
Min(a, b) == IF a < b THEN a ELSE b
Max(a, b) == IF a > b THEN a ELSE b

\* The loop over article_links without the slice.
SliceTo_NoCap(s, n) == s

\* article_links[:max_articles], with Python's meaning of a negative stop.
SliceTo(s, n) ==
    IF n >= 0 THEN SubSeq(s, 1, Min(n, Len(s)))
    ELSE SubSeq(s, 1, Max(Len(s) + n, 0))

\* articles_saved incremented for every candidate that reaches the test.
CountAfter_Always(cnt, d, saved) == cnt + 1

\* articles_saved after `if article_data and db_manager.save_article(...)`.
CountAfter(cnt, d, saved) ==
    IF d # None /\ saved THEN cnt + 1 ELSE cnt

\* main() without the finally block: the exception leaves main() at once.
RaiseTo_NoFinally(c) == IF c = "main" THEN "idle" ELSE "back"

\* Where an exception that leaves the current call arrives: main()'s
\* finally block (the exception goes on after it), or the direct caller.
RaiseTo(c) == IF c = "main" THEN "finally_exc" ELSE "back"

\* Where scrape_bbc_articles_to_db returns to: main()'s report, or the
\* direct caller.
ReturnTo(c) == IF c = "main" THEN "report" ELSE "back"

\* The max_articles a direct caller may pass besides the default: the caps
\* up to the longest discovery result, and a negative one.
KValues == -1 .. MaxLinks

\* The records a direct caller may pass to save_article.
SaveInputs ==
    {[title |-> CardTitle(u), body |-> "b", url |-> u, live |-> (u \in LiveURLs)] : u \in URLs}

\* ------------------------------------------------------------------- state
VARIABLES
    remote,      \* the object db_name in the bucket, or NoFile
    local,       \* the file at local_db_path, or NoFile
    pc,          \* "idle", "ready", "loop", "save", "insert", "back", "report",
                 \* "finally", "finally_exc"
    caller,      \* who drives the session: "main", "api", "none"
    opened,      \* the constructor of this session returned
    connOpen,    \* self.conn is open
    uploadTried, \* upload_file was called in this session
    runs,        \* sessions started
    inScrape,    \* scrape_bbc_articles_to_db is on the stack
    k,           \* its max_articles
    nlinks,      \* len(article_links)
    todo,        \* article_links[:max_articles]
    i,           \* candidates of todo done
    count,       \* articles_saved
    article_data, \* article_data handed to save_article
    ret,         \* how the last scrape ended: kind "none", "count" (n returned), "raised"
    before,      \* get_total_count() when the scrape began
    visits,      \* this scrape's candidates: url, existed, fetched, saveTried
    sv,          \* the last direct save_article call
    opn,         \* the last constructor call
    cls,         \* the last close_connection call (pending: main()'s try block
                 \* had raised)
    everSaved,   \* urls some save_article inserted since the last delete_article
    reins,       \* a url of everSaved was inserted again
    deletes,     \* rows delete_article has removed
    uploadFailed, \* some upload_file failed
    writers,     \* two managers on hosts of their own, sharing bucket and
                 \* db_name: per host its session and its local file
    articles,    \* the articles table the queries read: id and date_scraped
                 \* of each row, in rowid order
    answer,      \* the last query and what it returned
    homepage     \* the cards of the fetched homepage, in document order

vars == <<remote, local, pc, caller, opened, connOpen, uploadTried, runs, inScrape,
          k, nlinks, todo, i, count, article_data, ret, before, visits, sv, opn, cls,
          everSaved, reins, deletes, uploadFailed, writers, articles, answer,
          homepage>>

scrapeVars == <<inScrape, k, nlinks, todo, i, count, article_data, ret, before, visits>>
histVars == <<everSaved, reins, deletes, uploadFailed>>
queryVars == <<articles, answer, homepage>>
sideVars == <<writers, queryVars>>
sessVars == <<caller, opened, connOpen, uploadTried, runs>>

NoRet == [kind |-> "none", n |-> 0]
NoSave == [url |-> "none", second |-> FALSE, before |-> 0, ret |-> "none"]
NoOpen == [outcome |-> "none", raised |-> FALSE, count |-> 0]
NoClose == [outcome |-> "none", raised |-> FALSE, pending |-> FALSE]

NoAnswer == [op |-> "none"]

Hosts == {"A", "B"}
NoWriter == [pc |-> "idle", local |-> NoFile, dl |-> "none", overlap |-> FALSE,
             saved |-> {}, up |-> "none", order |-> 0, err |-> FALSE]

\* The bucket holds no object yet, or the empty database a run without new
\* articles has uploaded.
Init ==
    /\ remote \in {NoFile, EmptyFile}
    /\ local = NoFile
    /\ pc = "idle"
    /\ caller = "none"
    /\ opened = FALSE
    /\ connOpen = FALSE
    /\ uploadTried = FALSE
    /\ runs = 0
    /\ inScrape = FALSE
    /\ k = 0
    /\ nlinks = 0
    /\ todo = <<>>
    /\ i = 0
    /\ count = 0
    /\ article_data = None
    /\ ret = NoRet
    /\ before = 0
    /\ visits = <<>>
    /\ sv = NoSave
    /\ opn = NoOpen
    /\ cls = NoClose
    /\ everSaved = {}
    /\ reins = FALSE
    /\ deletes = 0
    /\ uploadFailed = FALSE
    /\ writers = [h \in Hosts |-> NoWriter]
    /\ articles = <<>>
    /\ answer = NoAnswer
    /\ homepage = <<>>

\* ----------------------------------------------------------------- actions
ResetScrape ==
    /\ inScrape' = FALSE
    /\ k' = 0
    /\ nlinks' = 0
    /\ todo' = <<>>
    /\ i' = 0
    /\ count' = 0
    /\ article_data' = None
    /\ ret' = NoRet
    /\ before' = 0
    /\ visits' = <<>>

\* S3BBCDatabaseManager(...): download_from_s3, then setup_database.  main()
\* constructs it before its try block; a direct caller constructs it itself.
Open(c, outcome) ==
    /\ pc = "idle"
    /\ runs < MaxRuns
    /\ outcome \in DownloadOutcomes(remote)
    /\ runs' = runs + 1
    /\ caller' = c
    /\ uploadTried' = FALSE
    /\ sv' = NoSave
    /\ cls' = NoClose
    /\ ResetScrape
    /\ IF DownloadRaises(outcome)
       THEN /\ local' = local
            /\ pc' = "idle"
            /\ opened' = FALSE
            /\ connOpen' = FALSE
            /\ opn' = [outcome |-> outcome, raised |-> TRUE, count |-> 0]
       ELSE /\ local' = setup_database(download_from_s3(local, remote, outcome))
            /\ pc' = "ready"
            /\ opened' = TRUE
            /\ connOpen' = TRUE
            /\ opn' = [outcome |-> outcome, raised |-> FALSE,
                       count |-> get_total_count(local')]
    /\ UNCHANGED <<remote, histVars>>
    /\ UNCHANGED sideVars

\* close_connection: conn.close(), then upload_to_s3 (self.conn is the
\* connection object, so `if self.conn` holds).  main() calls it in its
\* finally block.
Close(outcome) ==
    /\ \/ pc \in {"finally", "finally_exc"}
       \/ pc = "ready" /\ caller = "api"
    /\ outcome \in UploadOutcomes
    /\ connOpen' = FALSE
    /\ uploadTried' = TRUE
    /\ remote' = upload_to_s3(local, remote, outcome)
    /\ cls' = [outcome |-> outcome, raised |-> UploadRaises(outcome),
               pending |-> (pc = "finally_exc")]
    /\ uploadFailed' = (uploadFailed \/ outcome # "ok")
    /\ pc' = "idle"
    /\ sv' = NoSave
    /\ ResetScrape
    /\ UNCHANGED <<local, caller, opened, runs, opn, everSaved, reins, deletes>>
    /\ UNCHANGED sideVars

\* A direct call save_article(d): entry.
ApiSave(d) ==
    /\ pc = "ready"
    /\ caller = "api"
    /\ d \in SaveInputs
    /\ article_data' = d
    /\ pc' = "save"
    /\ sv' = [url |-> d.url,
              second |-> (sv.url = d.url /\ sv.ret \in {"True", "False"}),
              before |-> get_total_count(local),
              ret |-> "none"]
    /\ UNCHANGED <<remote, local, sessVars, inScrape, k, nlinks, todo, i, count, ret,
                   before, visits, opn, cls, histVars>>
    /\ UNCHANGED sideVars

\* save_article returns `saved` to the loop or to the direct caller.
SaveReturn(saved) ==
    /\ article_data' = None
    /\ IF inScrape
       THEN /\ count' = CountAfter(count, article_data, saved)
            /\ i' = i + 1
            /\ pc' = "loop"
            /\ sv' = sv
       ELSE /\ sv' = [sv EXCEPT !.ret = IF saved THEN "True" ELSE "False"]
            /\ pc' = "ready"
            /\ UNCHANGED <<count, i>>
    /\ UNCHANGED <<inScrape, k, nlinks, todo, ret, before, visits>>

\* An exception leaves the current call of the session.
Raise ==
    /\ pc' = RaiseTo(caller)
    /\ article_data' = None
    /\ inScrape' = FALSE
    /\ ret' = IF inScrape THEN [kind |-> "raised", n |-> 0] ELSE ret
    /\ sv' = IF inScrape THEN sv ELSE [sv EXCEPT !.ret = "raised"]
    /\ UNCHANGED <<k, nlinks, todo, i, count, before, visits>>

\* save_article: `if self.article_exists(url): return False`.
SaveCheck ==
    /\ pc = "save"
    /\ IF article_exists(local, article_data.url)
       THEN SaveReturn(FALSE)
       ELSE /\ pc' = "insert"
            /\ UNCHANGED <<scrapeVars, sv>>
    /\ UNCHANGED <<remote, local, sessVars, opn, cls, histVars>>
    /\ UNCHANGED sideVars

\* save_article: the INSERT, commit, `return True`.
SaveInsert ==
    /\ pc = "insert"
    /\ LET ins == SqlInsert(local, article_data)
       IN  IF ins.raised
           THEN /\ Raise
                /\ UNCHANGED <<local, histVars>>
           ELSE /\ local' = ins.file
                /\ everSaved' = everSaved \cup {article_data.url}
                /\ reins' = (reins \/ article_data.url \in everSaved)
                /\ SaveReturn(TRUE)
                /\ UNCHANGED <<deletes, uploadFailed>>
    /\ UNCHANGED <<remote, sessVars, opn, cls>>
    /\ UNCHANGED sideVars

\* A direct call delete_article(u).
ApiDelete(u) ==
    /\ pc = "ready"
    /\ caller = "api"
    /\ deletes < MaxDeletes
    /\ local' = delete_article(local, u).file
    /\ deletes' = IF delete_article(local, u).ret THEN deletes + 1 ELSE deletes
    /\ everSaved' = IF delete_article(local, u).ret THEN {} ELSE everSaved
    /\ reins' = (reins /\ ~delete_article(local, u).ret)
    /\ sv' = NoSave
    /\ UNCHANGED <<remote, pc, sessVars, scrapeVars, opn, cls, uploadFailed>>
    /\ UNCHANGED sideVars

\* scrape_bbc_articles_to_db(db_manager, kk): discovery returns ls; an empty
\* ls returns 0 at once.  main() calls it once, with max_articles=10.
ScrapeStart(ls, kk) ==
    /\ pc = "ready"
    /\ ls \in LinkLists
    /\ kk \in KValues \cup {MainMaxArticles}
    /\ caller = "main" => kk = MainMaxArticles
    /\ sv' = NoSave
    /\ nlinks' = Len(ls)
    /\ k' = kk
    /\ before' = get_total_count(local)
    /\ visits' = <<>>
    /\ count' = 0
    /\ i' = 0
    /\ article_data' = None
    /\ IF ls = <<>>
       THEN /\ todo' = <<>>
            /\ inScrape' = FALSE
            /\ ret' = [kind |-> "count", n |-> 0]
            /\ pc' = ReturnTo(caller)
       ELSE /\ todo' = SliceTo(ls, kk)
            /\ inScrape' = TRUE
            /\ ret' = NoRet
            /\ pc' = "loop"
    /\ UNCHANGED <<remote, local, sessVars, opn, cls, histVars>>
    /\ UNCHANGED sideVars

Visit(info, fetched, saveTried, page) ==
    [url |-> info.url, existed |-> (info.url \in UrlsOf(local)),
     fetched |-> fetched, saveTried |-> saveTried, page |-> page]

\* The loop body: `if db_manager.article_exists(url): continue`.
LoopSkip ==
    /\ pc = "loop"
    /\ i < Len(todo)
    /\ article_exists(local, todo[i + 1].url)
    /\ visits' = Append(visits, Visit(todo[i + 1], FALSE, FALSE, "none"))
    /\ i' = i + 1
    /\ UNCHANGED <<remote, local, pc, sessVars, inScrape, k, nlinks, todo, count,
                   article_data, ret, before, sv, opn, cls, histVars>>
    /\ UNCHANGED sideVars

\* The loop body: the fetch of a candidate that is not stored, up to the
\* call of save_article.
LoopFetch(page) ==
    /\ pc = "loop"
    /\ i < Len(todo)
    /\ ~article_exists(local, todo[i + 1].url)
    /\ page \in PagesOf(todo[i + 1])
    /\ LET ad == Fetch(todo[i + 1], page)
       IN  /\ visits' = Append(visits, Visit(todo[i + 1], TRUE, ad # None, page))
           /\ IF ad = None
              THEN /\ count' = CountAfter(count, ad, FALSE)
                   /\ i' = i + 1
                   /\ UNCHANGED <<pc, article_data>>
              ELSE /\ article_data' = ad
                   /\ pc' = "save"
                   /\ UNCHANGED <<count, i>>
    /\ UNCHANGED <<remote, local, sessVars, inScrape, k, nlinks, todo, ret, before,
                   sv, opn, cls, histVars>>
    /\ UNCHANGED sideVars

\* The loop body: an exception outside the fetchers' try blocks (ua.random,
\* a sqlite3 error) leaves scrape_bbc_articles_to_db.
LoopRaise ==
    /\ pc = "loop"
    /\ i < Len(todo)
    /\ Raise
    /\ UNCHANGED <<remote, local, sessVars, opn, cls, histVars>>
    /\ UNCHANGED sideVars

\* The loop is done: `return articles_saved`.
LoopEnd ==
    /\ pc = "loop"
    /\ i = Len(todo)
    /\ ret' = [kind |-> "count", n |-> count]
    /\ inScrape' = FALSE
    /\ pc' = ReturnTo(caller)
    /\ UNCHANGED <<remote, local, sessVars, k, nlinks, todo, i, count, article_data,
                   before, visits, sv, opn, cls, histVars>>
    /\ UNCHANGED sideVars

\* The direct caller has the scrape's result or exception and goes on.
Resume ==
    /\ pc = "back"
    /\ pc' = "ready"
    /\ ResetScrape
    /\ UNCHANGED <<remote, local, sessVars, sv, opn, cls, histVars>>
    /\ UNCHANGED sideVars

\* main(): the report after the scrape (get_recent_articles and
\* get_total_count when articles were saved); it ends or raises, and the
\* finally block follows either way.
Report(raises) ==
    /\ pc = "report"
    /\ raises \in (IF ret.n > 0 THEN BOOLEAN ELSE {FALSE})
    /\ pc' = IF raises THEN RaiseTo(caller) ELSE "finally"
    /\ UNCHANGED <<remote, local, sessVars, scrapeVars, sv, opn, cls, histVars>>
    /\ UNCHANGED sideVars

\* Another process saves the same url into the same local file while
\* save_article of this session is between its check and its INSERT.
OtherWriterSave(d) ==
    /\ pc = "insert"
    /\ d \in SaveInputs
    /\ d.url = article_data.url
    /\ ~article_exists(local, d.url)
    /\ ~SqlInsert(local, d).raised
    /\ local' = SqlInsert(local, d).file
    /\ UNCHANGED <<remote, pc, sessVars, scrapeVars, sv, opn, cls, histVars>>
    /\ UNCHANGED sideVars

\* The steps inside a session, whoever drives it, but the start of a scrape.
Step ==
    \/ \E o \in UploadOutcomes : Close(o)
    \/ \E d \in SaveInputs : ApiSave(d)
    \/ SaveCheck
    \/ SaveInsert
    \/ LoopSkip
    \/ \E page \in StdPages \cup LivePages : LoopFetch(page)
    \/ LoopRaise
    \/ LoopEnd
    \/ Resume

OpenFailures == {"ok", "404", "client_error", "other_error"}

\* Sessions of main() and of direct callers, one after the other.
Next ==
    \/ \E c \in {"main", "api"}, o \in OpenFailures : Open(c, o)
    \/ Step
    \/ \E ls \in LinkLists, kk \in KValues \cup {MainMaxArticles} : ScrapeStart(ls, kk)
    \/ \E r \in BOOLEAN : Report(r)

Spec == Init /\ [][Next]_vars

\* Sessions of direct callers who scrape with the default max_articles, with
\* delete_article among the calls and a second writer on the local file.
NextRace ==
    \/ \E o \in OpenFailures : Open("api", o)
    \/ Step
    \/ \E ls \in LinkLists : ScrapeStart(ls, MainMaxArticles)
    \/ \E u \in URLs : ApiDelete(u)
    \/ \E d \in SaveInputs : OtherWriterSave(d)

SpecRace == Init /\ [][NextRace]_vars

\* ------------------------------------------- two managers, one remote object
\* Each host has a local_db_path of its own; nothing but the bucket is shared,
\* and neither download_from_s3 nor upload_to_s3 takes a lock or compares
\* versions.
oneHostVars == <<local, pc, sessVars, scrapeVars, sv, opn, cls, histVars, queryVars>>

OtherHost(h) == CHOOSE g \in Hosts : g # h

NCloses == Cardinality({h \in Hosts : writers[h].pc = "closed"})

\* S3BBCDatabaseManager(...) on host h: download_from_s3, setup_database.
TwoOpen(h, outcome) ==
    /\ writers[h].pc = "idle"
    /\ outcome \in DownloadOutcomes(remote)
    /\ writers' =
         [writers EXCEPT ![h] =
            IF DownloadRaises(outcome)
            THEN [@ EXCEPT !.pc = "failed", !.dl = outcome, !.err = TRUE]
            ELSE [@ EXCEPT !.pc = "open",
                           !.dl = outcome,
                           !.overlap = (writers[OtherHost(h)].pc = "open"),
                           !.local = setup_database(
                                        download_from_s3(@, remote, outcome))]]
    /\ UNCHANGED <<remote, oneHostVars>>

\* save_article(d) on host h: the check, the INSERT, the commit.
TwoSave(h, d) ==
    /\ writers[h].pc = "open"
    /\ d \in SaveInputs
    /\ ~article_exists(writers[h].local, d.url)
    /\ ~SqlInsert(writers[h].local, d).raised
    /\ writers' = [writers EXCEPT ![h].local = SqlInsert(@, d).file,
                                  ![h].saved = @ \cup {d.url}]
    /\ UNCHANGED <<remote, oneHostVars>>

\* close_connection() on host h: conn.close(), upload_to_s3.
TwoClose(h, outcome) ==
    /\ writers[h].pc = "open"
    /\ outcome \in UploadOutcomes
    /\ remote' = upload_to_s3(writers[h].local, remote, outcome)
    /\ writers' = [writers EXCEPT ![h].pc = "closed",
                                  ![h].up = outcome,
                                  ![h].order = NCloses + 1,
                                  ![h].err = UploadRaises(outcome)]
    /\ UNCHANGED oneHostVars

NextTwo ==
    \/ \E h \in Hosts, o \in OpenFailures : TwoOpen(h, o)
    \/ \E h \in Hosts, d \in SaveInputs : TwoSave(h, d)
    \/ \E h \in Hosts, o \in UploadOutcomes : TwoClose(h, o)

SpecTwo == Init /\ [][NextTwo]_vars

\* ------------------------------------------- bbc.py: the CSV orchestrator
\* scrape_bbc_articles(max_articles) keeps the scraped articles in a list
\* (count is its length) and returns them as a DataFrame; no store is used.
CsvContents(info) ==
    IF info.live THEN LiveContents(info.url) ELSE StdContents(info.url)

\* get_bbc_article_links() returns ls; an empty ls returns an empty frame.
CsvStart(ls, kk) ==
    /\ pc = "idle"
    /\ ret = NoRet
    /\ ls \in LinkLists
    /\ kk \in KValues \cup {MainMaxArticles}
    /\ nlinks' = Len(ls)
    /\ k' = kk
    /\ IF ls = <<>>
       THEN /\ todo' = <<>>
            /\ inScrape' = FALSE
            /\ ret' = [kind |-> "frame", n |-> 0]
            /\ pc' = ReturnTo(caller)
       ELSE /\ todo' = SliceTo(ls, kk)
            /\ inScrape' = TRUE
            /\ ret' = NoRet
            /\ pc' = "loop"
    /\ UNCHANGED <<remote, local, sessVars, i, count, article_data, before, visits,
                   sv, opn, cls, histVars, writers, queryVars>>

\* The loop body.  For a live candidate the title is assigned into the
\* fetcher's result without a test: article_data["title"] = ... raises
\* TypeError when the result is None.
CsvVisit(content) ==
    /\ pc = "loop"
    /\ i < Len(todo)
    /\ content \in CsvContents(todo[i + 1])
    /\ IF todo[i + 1].live /\ content = None
       THEN Raise
       ELSE /\ count' = IF content # None THEN count + 1 ELSE count
            /\ i' = i + 1
            /\ visits' = Append(visits, [url |-> todo[i + 1].url, existed |-> FALSE,
                                         fetched |-> TRUE, saveTried |-> FALSE,
                                         page |-> "none"])
            /\ UNCHANGED <<pc, inScrape, k, nlinks, todo, article_data, ret, before, sv>>
    /\ UNCHANGED <<remote, local, sessVars, opn, cls, histVars, writers, queryVars>>

\* After the loop: `return df`, or an empty frame when nothing was scraped.
CsvEnd ==
    /\ pc = "loop"
    /\ i = Len(todo)
    /\ ret' = [kind |-> "frame", n |-> count]
    /\ inScrape' = FALSE
    /\ pc' = ReturnTo(caller)
    /\ UNCHANGED <<remote, local, sessVars, k, nlinks, todo, i, count, article_data,
                   before, visits, sv, opn, cls, histVars, writers, queryVars>>

NextCsv ==
    \/ \E ls \in LinkLists, kk \in KValues \cup {MainMaxArticles} : CsvStart(ls, kk)
    \/ \E c \in UNION {CsvContents(info) : info \in Candidates} : CsvVisit(c)
    \/ CsvEnd

SpecCsv == Init /\ [][NextCsv]_vars

\* --------------------------------------------------------------- queries
\* The values datetime.now() gives save_article: naive local wall-clock
\* time, which may repeat and may step back between two calls.
Times == 1 .. MaxTime

otherVars == <<remote, local, pc, sessVars, scrapeVars, sv, opn, cls, histVars, writers,
               homepage>>

Front(s) == SubSeq(s, 1, Len(s) - 1)
Last(s) == s[Len(s)]

\* The sorter of ORDER BY date_scraped DESC takes row r after the rows it
\* has: r goes behind every row whose date_scraped is not smaller.  The
\* table has no index on date_scraped, so the rows arrive in rowid order and
\* rows of equal date_scraped stay in that order.
SorterInsert(sorted, r) ==
    LET n == Cardinality({j \in 1..Len(sorted) :
                             sorted[j].date_scraped >= r.date_scraped})
    IN  SubSeq(sorted, 1, n) \o <<r>> \o SubSeq(sorted, n + 1, Len(sorted))

\* SELECT ... FROM articles ORDER BY date_scraped DESC
RECURSIVE OrderByDateScrapedDesc(_)
OrderByDateScrapedDesc(rows) ==
    IF rows = <<>> THEN <<>>
    ELSE SorterInsert(OrderByDateScrapedDesc(Front(rows)), Last(rows))

\* LIMIT lim OFFSET off
LimitOffset(rows, lim, off) ==
    SubSeq(rows, off + 1, Min(off + lim, Len(rows)))

\* db_manager.get_recent_articles(limit)
get_recent_articles(rows, limit) ==
    LimitOffset(OrderByDateScrapedDesc(rows), limit, 0)

\* offset computed from the page number as if pages were counted from 0.
Offset_FromZero(page, limit) == page * limit

\* app.get_articles: offset = (page - 1) * limit
Offset(page, limit) == (page - 1) * limit

\* app.get_articles: total_pages = (total_count + limit - 1) // limit
TotalPages(total_count, limit) == (total_count + limit - 1) \div limit

\* app.get_articles(page, limit) without keyword.
get_articles(rows, page, limit) ==
    LET page_rows == LimitOffset(OrderByDateScrapedDesc(rows), limit, Offset(page, limit))
    IN  [op |-> "list",
         articles |-> page_rows,
         count |-> Len(page_rows),
         page |-> page,
         limit |-> limit,
         total_pages |-> TotalPages(Len(rows), limit),
         total_count |-> Len(rows)]

\* What the body of get_article's try block does with the database:
\* "ok", or sqlite3.Error, or another exception (db_connection's
\* HTTPException included).
LookupOutcomes == {"ok", "sqlite_error", "other_error"}

\* The exception get_article's try block raises, "none" when it returns.
\* `raise HTTPException(status_code=404)` stands inside the try block.
TryRaises(rows, article_id, outcome) ==
    IF outcome = "sqlite_error" THEN "sqlite3.Error"
    ELSE IF outcome = "other_error" THEN "Exception"
    ELSE IF \A j \in 1..Len(rows) : rows[j].id # article_id THEN "HTTPException(404)"
    ELSE "none"

\* app.get_article(article_id): the status the client gets.  The handler
\* `except Exception` also catches HTTPException, a subclass of Exception,
\* and raises HTTPException(500) in its place.
get_article(rows, article_id, outcome) ==
    LET e == TryRaises(rows, article_id, outcome)
    IN  [op |-> "get",
         article_id |-> article_id,
         outcome |-> outcome,
         status |-> IF e = "none" THEN 200
                    ELSE IF e = "sqlite3.Error" THEN 500
                    ELSE 500]

\* save_article at wall-clock time t: id by AUTOINCREMENT, date_scraped = t.
QSave(t) ==
    /\ Len(articles) < MaxRows
    /\ t \in Times
    /\ articles' = Append(articles, [id |-> Len(articles) + 1, date_scraped |-> t])
    /\ answer' = NoAnswer
    /\ UNCHANGED otherVars

QRecent(n) ==
    /\ n \in 0..MaxRows
    /\ answer' = [op |-> "recent", limit |-> n,
                  articles |-> get_recent_articles(articles, n)]
    /\ UNCHANGED <<articles, otherVars>>

\* GET /articles?page=..&limit=..  (page >= 1, 1 <= limit <= 100)
QList(page, limit) ==
    /\ page \in 1..(MaxRows + 1)
    /\ limit \in 1..Min(LimitLe, MaxRows + 1)
    /\ answer' = get_articles(articles, page, limit)
    /\ UNCHANGED <<articles, otherVars>>

\* GET /articles/{article_id}
QGet(article_id, outcome) ==
    /\ article_id \in 1..(MaxRows + 1)
    /\ outcome \in LookupOutcomes
    /\ answer' = get_article(articles, article_id, outcome)
    /\ UNCHANGED <<articles, otherVars>>

NextQuery ==
    \/ \E t \in Times : QSave(t)
    \/ \E n \in 0..MaxRows : QRecent(n)
    \/ \E page \in 1..(MaxRows + 1), limit \in 1..Min(LimitLe, MaxRows + 1) : QList(page, limit)
    \/ \E article_id \in 1..(MaxRows + 1), o \in LookupOutcomes : QGet(article_id, o)

SpecQuery == Init /\ [][NextQuery]_vars

\* ------------------------------------------------------------- discovery
\* A card of the homepage: its data-testid ("dundee" for a dundee-card or
\* manchester-card with an internal-link, "westminster" for a
\* westminster-card with an external-anchor), and what its link holds:
\* "/live/", and "/av/" or "/videos/" or neither.  Every card has a headline.
Cards ==
    [testid : {"dundee", "westminster"}, live : BOOLEAN, video : {"none", "av", "videos"}]

PlainCard == [testid |-> "dundee", live |-> FALSE, video |-> "none"]

notPageVars == <<remote, local, pc, sessVars, scrapeVars, sv, opn, cls, histVars, writers,
                 articles>>

\* bbc_scraper.py, the loop over featured_cards up to position j: a card
\* whose link holds "/av/" or "/videos/" is skipped, after is_live was set.
RECURSIVE FeaturedLinks(_, _)
FeaturedLinks(doc, j) ==
    IF j = 0 THEN <<>>
    ELSE IF doc[j].testid = "dundee" /\ doc[j].video = "none"
         THEN Append(FeaturedLinks(doc, j - 1), [pos |-> j, live |-> doc[j].live])
         ELSE FeaturedLinks(doc, j - 1)

\* bbc_scraper.py, the loop over live_cards up to position j.
RECURSIVE LiveLinks(_, _)
LiveLinks(doc, j) ==
    IF j = 0 THEN <<>>
    ELSE IF doc[j].testid = "westminster"
         THEN Append(LiveLinks(doc, j - 1), [pos |-> j, live |-> TRUE])
         ELSE LiveLinks(doc, j - 1)

\* bbc_scraper.py: articles before the slice.
AllLinks(doc) == FeaturedLinks(doc, Len(doc)) \o LiveLinks(doc, Len(doc))

\* bbc_scraper.get_bbc_article_links(): [] when the homepage is not fetched.
get_bbc_article_links(doc, fetch) ==
    IF fetch # "ok" THEN <<>>
    ELSE SliceTo(AllLinks(doc), TopStories)

\* bbc.py, the loop over the h2 elements up to position j: "/live/" first,
\* then `if "/av/" in link: continue`.
RECURSIVE HeadlineLinks(_, _)
HeadlineLinks(doc, j) ==
    IF j = 0 THEN <<>>
    ELSE IF doc[j].live
         THEN Append(HeadlineLinks(doc, j - 1), [pos |-> j, live |-> TRUE])
         ELSE IF doc[j].video = "av"
              THEN HeadlineLinks(doc, j - 1)
              ELSE Append(HeadlineLinks(doc, j - 1), [pos |-> j, live |-> FALSE])

\* bbc.get_bbc_article_links(): `return articles`.
bbc_get_bbc_article_links(doc, fetch) ==
    IF fetch # "ok" THEN <<>>
    ELSE HeadlineLinks(doc, Len(doc))

\* The homepage gets one more card: any card among the first MaxCards, plain
\* article cards behind them.
PageAppend(card) ==
    /\ card \in Cards
    /\ \/ Len(homepage) < MaxCards
       \/ card = PlainCard /\ Len(homepage) < MaxCards + TopStories
    /\ homepage' = Append(homepage, card)
    /\ answer' = NoAnswer
    /\ UNCHANGED notPageVars

Discover(fetch) ==
    /\ fetch \in {"ok", "failed"}
    /\ answer' = [op |-> "links", fetch |-> fetch, all |-> AllLinks(homepage),
                  links |-> get_bbc_article_links(homepage, fetch)]
    /\ UNCHANGED <<homepage, notPageVars>>

DiscoverCsv(fetch) ==
    /\ fetch \in {"ok", "failed"}
    /\ answer' = [op |-> "links", fetch |-> fetch, all |-> HeadlineLinks(homepage, Len(homepage)),
                  links |-> bbc_get_bbc_article_links(homepage, fetch)]
    /\ UNCHANGED <<homepage, notPageVars>>

NextLinks ==
    \/ \E card \in Cards : PageAppend(card)
    \/ \E f \in {"ok", "failed"} : Discover(f)
    \/ \E f \in {"ok", "failed"} : DiscoverCsv(f)

SpecLinks == Init /\ [][NextLinks]_vars

\* ------------------------------------------------------------------ claims
NFetch == Cardinality({j \in 1..Len(visits) : visits[j].fetched})

TodoUrls == [j \in 1..Len(todo) |-> todo[j].url]

\* C1: when save_article is called twice in a row with the same url, the
\* second call returns False, get_total_count() is what it was before the
\* second call, and exactly one record has that url.
C1_DedupIdempotence ==
    (sv.second /\ sv.ret # "none") =>
        /\ sv.ret = "False"
        /\ get_total_count(local) = sv.before
        /\ Cardinality(RowsWithUrl(local, sv.url)) = 1

C1_Witness == sv.second /\ sv.ret = "False" /\ sv.before = 2

\* C2: no two records of the articles table share a url, in the local file
\* and in the remote copy, in every state saves, deletes and scraper runs
\* reach.
C2_UrlUnique ==
    \A f \in {local, remote} \ {NoFile} :
        \A u \in URLs : Cardinality(RowsWithUrl(f, u)) <= 1

C2_Witness ==
    /\ local # NoFile
    /\ remote # NoFile
    /\ deletes > 0
    /\ runs > 1
    /\ ret.kind = "count"
    /\ ret.n > 0
    /\ UrlsOf(local) = URLs

C4_Cap == NFetch <= k

\* C4 amended: one call with max_articles = k >= 0 issues at most k fetches,
\* also when discovery returns more than k candidates.
C4_CapNonNegative == k >= 0 => NFetch <= k

C4_Witness == ret.kind = "count" /\ k = 1 /\ nlinks > k /\ NFetch = k

\* C5: a candidate whose url is in the store when it is visited is neither
\* fetched nor saved; with u2 stored and discovery [u1, u2], run(2) returns 1
\* having fetched u1 only.
C5_SkipOnDuplicate ==
    /\ \A j \in 1..Len(visits) :
           visits[j].existed => ~visits[j].fetched /\ ~visits[j].saveTried
    /\ (/\ ret.kind = "count"
        /\ k = 2
        /\ TodoUrls = <<"u1", "u2">>
        /\ before = 1
        /\ visits[1].saveTried
        /\ visits[2].existed)
       => (ret.n = 1 /\ NFetch = 1 /\ visits[1].fetched)

C5_Witness ==
    /\ ret.kind = "count"
    /\ k = 2
    /\ TodoUrls = <<"u1", "u2">>
    /\ before = 1
    /\ visits[1].saveTried
    /\ visits[2].existed
    /\ ret.n = 1

\* C6: the count scrape_bbc_articles_to_db returns is the number of records
\* the run inserted: get_total_count() after it minus get_total_count()
\* before it.
C6_CountExact ==
    ret.kind = "count" => ret.n = get_total_count(local) - before

C6_Witness ==
    /\ ret.kind = "count"
    /\ ret.n = 1
    /\ before = 1
    /\ \E j \in 1..Len(visits) : visits[j].fetched /\ ~visits[j].saveTried

\* C7: when main() has left after the manager was constructed, the
\* connection is closed and the upload was attempted, whether or not the
\* try block raised.
C7_GuaranteedRelease ==
    (pc = "idle" /\ caller = "main" /\ opened) => (~connOpen /\ uploadTried)

C7_Witness ==
    pc = "idle" /\ caller = "main" /\ opened /\ cls.pending /\ uploadTried

C9_BestEffortPull ==
    opn.outcome \in {"client_error", "other_error"} => (~opn.raised /\ opened)

\* C10: when the download reports object-not-found, the store that is opened
\* holds no records.
C10_FreshOnNotFound == opn.outcome = "404" => opn.count = 0

\* C11: two runs that downloaded the same remote object before either
\* uploaded, saved different new urls and closed with successful uploads
\* leave in the remote object the file of the run that closed last; the
\* url the other run saved is not in it, and neither run was given an error.
Clobbered(a, b) ==
    /\ a # b
    /\ writers[a].pc = "closed"
    /\ writers[b].pc = "closed"
    /\ writers[a].order < writers[b].order
    /\ writers[a].overlap \/ writers[b].overlap
    /\ writers[a].dl = "ok"
    /\ writers[b].dl = "ok"
    /\ writers[a].up = "ok"
    /\ writers[b].up = "ok"
    /\ writers[a].saved # {}
    /\ writers[b].saved # {}
    /\ writers[a].saved \cap writers[b].saved = {}

C11_LastWriterWins ==
    \A a, b \in Hosts :
        Clobbered(a, b) =>
            /\ remote = writers[b].local
            /\ writers[a].saved \cap UrlsOf(remote) = {}
            /\ writers[b].saved \subseteq UrlsOf(remote)
            /\ ~writers[a].err
            /\ ~writers[b].err

C11_Witness ==
    /\ Clobbered("A", "B")
    /\ writers["A"].saved = {"u1"}
    /\ writers["B"].saved = {"u2"}
    /\ UrlsOf(remote) = {"u2"}
    /\ UrlsOf(writers["A"].local) = {"u1"}

\* C12: when the INSERT of a run's save_article violates the UNIQUE
\* constraint on url (another writer inserted the url after the existence
\* check), the run goes on with the next candidate, its count unchanged.
C12_ViolationNotFatal ==
    [][(pc = "insert" /\ inScrape /\ UniqueViolated(local, article_data.url))
          => (pc' = "loop" /\ inScrape' /\ count' = count /\ i' = i + 1)]_vars

\* C13: whatever the candidates' fetches and extractions yield (absence
\* included, for standard and for live candidates), the orchestrator ends
\* with its result and never with an exception.
C13_AlwaysCompletes ==
    /\ ret.kind # "raised"
    /\ (pc = "back" /\ nlinks > 0 /\ k >= nlinks) => Len(visits) = nlinks

\* C14: get_recent_articles(n) with n <= total_count returns the n records
\* inserted last, by date_scraped descending, records of equal date_scraped
\* in insertion order.
RecentIds == {answer.articles[j].id : j \in 1..Len(answer.articles)}

C14_RecentOrdering ==
    (answer.op = "recent" /\ answer.limit <= Len(articles)) =>
        /\ Len(answer.articles) = answer.limit
        /\ RecentIds = (Len(articles) - answer.limit + 1) .. Len(articles)
        /\ \A j, m \in 1..Len(answer.articles) :
               j < m =>
                 \/ answer.articles[j].date_scraped > answer.articles[m].date_scraped
                 \/ /\ answer.articles[j].date_scraped = answer.articles[m].date_scraped
                    /\ answer.articles[j].id < answer.articles[m].id

\* C15: for the table of T records and page size L, total_pages is
\* ceil(T / L), and the pages 1..total_pages put one after the other hold
\* every record exactly once, by date_scraped descending, also when records
\* share a date_scraped.
RECURSIVE PagesUpTo(_, _, _)
PagesUpTo(rows, limit, p) ==
    IF p = 0 THEN <<>>
    ELSE PagesUpTo(rows, limit, p - 1) \o get_articles(rows, p, limit).articles

C15_Pagination ==
    answer.op = "list" =>
        LET T == Len(articles)
            L == answer.limit
            all == PagesUpTo(articles, L, answer.total_pages)
        IN  /\ answer.total_count = T
            /\ answer.total_pages * L >= T
            /\ (answer.total_pages - 1) * L < T
            /\ Len(all) = T
            /\ {all[j] : j \in 1..Len(all)} = Range(articles)
            /\ \A j, m \in 1..Len(all) :
                   j < m => all[j].date_scraped >= all[m].date_scraped
            /\ answer.page <= answer.total_pages =>
                   answer.articles = SubSeq(all, (answer.page - 1) * L + 1,
                                            Min(answer.page * L, T))

C15_Witness ==
    /\ answer.op = "list"
    /\ answer.page = 2
    /\ answer.limit = 2
    /\ answer.total_pages = 2
    /\ answer.count = 1
    /\ Len(articles) = 3
    /\ articles[2].date_scraped = articles[3].date_scraped
    /\ articles[1].date_scraped < articles[2].date_scraped

\* C16: get_article with an id no record has answers 404, which is not the
\* status of a database or other failure.
C16_NotFoundDistinct ==
    (/\ answer.op = "get"
     /\ answer.outcome = "ok"
     /\ \A j \in 1..Len(articles) : articles[j].id # answer.article_id)
    => (answer.status = 404 /\ answer.status # 500)

\* C17: of the headline links of a page, one that holds "/live/" is kept
\* with live = true, also when it holds "/av/" or "/videos/"; one that holds
\* "/av/" or "/videos/" and not "/live/" is dropped; any other is kept with
\* live = false.  (Pages short enough for the slice to cut nothing.)
LinkAt(j) == {answer.links[m] : m \in {n \in 1..Len(answer.links) : answer.links[n].pos = j}}

C17_ClassificationPriority ==
    (answer.op = "links" /\ answer.fetch = "ok" /\ Len(homepage) <= TopStories) =>
        \A j \in 1..Len(homepage) :
            IF homepage[j].live THEN LinkAt(j) = {[pos |-> j, live |-> TRUE]}
            ELSE IF homepage[j].video # "none" THEN LinkAt(j) = {}
            ELSE LinkAt(j) = {[pos |-> j, live |-> FALSE]}

\* C18: discovery returns at most 10 candidates, in the order of their
\* headlines in the document, and they are the first 10 headlines it keeps.
C18_DocumentOrderTop10 ==
    answer.op = "links" =>
        /\ Len(answer.links) <= TopStories
        /\ \A j, m \in 1..Len(answer.links) :
               j < m => answer.links[j].pos < answer.links[m].pos
        /\ \A j \in 1..Len(answer.all) :
               (\E m \in 1..Len(answer.links) : answer.all[j].pos < answer.links[m].pos)
                 => \E m \in 1..Len(answer.links) : answer.all[j].pos = answer.links[m].pos

\* C19: a live candidate that is not stored and whose page has no summary
\* points gets article_data with body "", and the run saves a record with
\* body "", is_live true and the candidate's title and counts it; a standard
\* candidate whose page has no <article> element is not handed to
\* save_article.
VisitOver(j) == j < Len(visits) \/ pc \notin {"save", "insert"}

C19_EmptyLiveRecorded ==
    /\ \A j \in 1..Len(visits) :
         /\ visits[j].page = "no_points" =>
                /\ visits[j].saveTried
                /\ VisitOver(j) =>
                       \E r \in Range(local.rows) :
                           /\ r.url = visits[j].url
                           /\ r.body = ""
                           /\ r.is_live
                           /\ r.title = CardTitle(visits[j].url)
         /\ visits[j].page = "no_article" => ~visits[j].saveTried
    /\ ret.kind = "count" =>
           ret.n = Cardinality({j \in 1..Len(visits) : visits[j].saveTried})

C19_Witness ==
    /\ ret.kind = "count"
    /\ ret.n = 1
    /\ Len(visits) = 2
    /\ visits[1].page = "no_article"
    /\ visits[2].page = "no_points"
    /\ \E r \in Range(local.rows) : r.url = visits[2].url /\ r.body = "" /\ r.is_live

====
